---- MODULE Spec2Model ----
(***************************************************************************)
(* Kodi-board API (BAN-SoundBoard-BE): the request handlers of main.py,    *)
(* the identity resolver of auth.py, the connection scopes of db.py and    *)
(* the object-storage adapter of app/storage.py as one state machine.      *)
(*                                                                         *)
(* A request is a task that runs its handler one await at a time; every    *)
(* database round trip and every storage call is one step.  The database   *)
(* is PostgreSQL reached through a pool; the code never opens a            *)
(* transaction block, so every conn.execute / fetch / fetchrow is its own  *)
(* implicit transaction and commits when the statement ends.  Row-level    *)
(* policies and the table definitions are not part of the sources: a       *)
(* statement sees a row when the row exists, and any statement may fail.   *)
(* Columns that no handler branches on (name, description, size, format,   *)
(* created_at, duration) are left out of the rows.                         *)
(***************************************************************************)
EXTENDS Integers, Sequences, FiniteSets, TLC

\* ---------------------------------------------------------------- bounds
NReq == 2           \* request tasks in flight at once
MaxTokens == 3      \* share tokens drawn by secrets.token_urlsafe
MaxPlaylists == 2   \* playlist ids drawn by uuid.uuid4
MaxSounds == 2      \* sound ids drawn by uuid.uuid4
MaxPosition == 3    \* positions handed out by MAX(position) + 1

\* ------------------------------------------------------ program constants
PoolMax == 5        \* asyncpg.create_pool(max_size=5)

Req == 1..NReq
Conns == 1..PoolMax
TokenIds == 1..MaxTokens
PlaylistIds == 1..MaxPlaylists
SoundIds == 1..MaxSounds

\* Subject ids are uuid strings.
Users == {"aaaaaa-1", "bbbbbb-1"}

None == "None"
Unset == "unset"

\* ------------------------------------------------ session settings (GUCs)
\* rs = row_security, sub = request.jwt.claim.sub, role = request.jwt.claim.role
DefaultSettings == [rs |-> "on", sub |-> Unset, role |-> Unset]
NoLocal == [rs |-> None, sub |-> None, role |-> None]
FreshConn == [sess |-> DefaultSettings, loc |-> NoLocal]

\* The scoped blocks yield the connection without conn.transaction(): no
\* transaction block is open when a statement is sent.
InTransaction == FALSE

\* set_config(name, value, true): the third argument is is_local.
is_local == TRUE

SetStmt(name, val, local) == [name |-> name, val |-> val, local |-> local]

\* The settings a statement sent now is evaluated under.
Effective(cs) ==
    [n \in {"rs", "sub", "role"} |->
        IF cs.loc[n] # None THEN cs.loc[n] ELSE cs.sess[n]]

\* The end of a statement: outside a transaction block the implicit
\* transaction commits and every transaction-local setting is discarded.
EndOfStatement(cs) == IF InTransaction THEN cs ELSE [cs EXCEPT !.loc = NoLocal]

\* conn.execute of one SET LOCAL / set_config statement.
Execute(cs, st) ==
    EndOfStatement(IF st.local
                   THEN [cs EXCEPT !.loc[st.name] = st.val]
                   ELSE [cs EXCEPT !.sess[st.name] = st.val])

RECURSIVE ExecuteAll(_, _)
ExecuteAll(cs, stmts) ==
    IF stmts = <<>> THEN cs
    ELSE ExecuteAll(Execute(cs, Head(stmts)), Tail(stmts))

Truthy(v) == v # None /\ v # ""

\* get_db: the three statements sent before the connection is yielded.
get_db_session_local(user_id, role) ==
    << SetStmt("rs", "on", TRUE),
       SetStmt("sub", IF Truthy(user_id) THEN user_id ELSE "", is_local),
       SetStmt("role", IF Truthy(user_id) THEN role ELSE "anon", is_local) >>

get_db_session_global(user_id, role) ==
    << SetStmt("rs", "on", FALSE),
       SetStmt("sub", IF Truthy(user_id) THEN user_id ELSE "", FALSE),
       SetStmt("role", IF Truthy(user_id) THEN role ELSE "anon", FALSE) >>

get_db_statements(user_id, role) == get_db_session_local(user_id, role)

\* get_service_db: the one statement sent before the connection is yielded.
get_service_db_statements == << SetStmt("rs", "off", TRUE) >>

\* The finally clause of both scopes: pool.release(conn) on every exit.  The
\* pool keeps its free connections last-in first-out.
release_on_success_only(free, c, failed) ==
    IF failed THEN free ELSE Append(free, c)

pool_release(free, c, failed) == Append(free, c)

\* ------------------------------------------------------------- credentials
NoCred == [kind |-> "none", sub |-> None, role |-> None, meta |-> 0]
BadCred(k) == [kind |-> k, sub |-> None, role |-> None, meta |-> 0]
ValidCred(u, k) == [kind |-> "valid", sub |-> u, role |-> "authenticated", meta |-> k]

NoUser == [id |-> None, role |-> None]

\* decode_token: the payload, or the 401 raised for an expired or invalid token.
decode_token(cred) ==
    IF cred.kind \in {"expired", "invalid"}
    THEN [ok |-> FALSE, sub |-> None, role |-> None]
    ELSE [ok |-> TRUE, sub |-> cred.sub,
          role |-> IF cred.role = None THEN "authenticated" ELSE cred.role]

\* get_current_user: [status, user]; status 401 rejects the request.
get_current_user(cred) ==
    IF cred.kind = "none" THEN [status |-> 401, user |-> NoUser]
    ELSE LET p == decode_token(cred) IN
         IF ~p.ok THEN [status |-> 401, user |-> NoUser]
         ELSE IF ~Truthy(p.sub) THEN [status |-> 401, user |-> NoUser]
         ELSE [status |-> 0, user |-> [id |-> p.sub, role |-> p.role]]

\* get_optional_user: None for a missing credential or a payload without sub;
\* the 401 of decode_token is not caught.
get_optional_user(cred) ==
    IF cred.kind = "none" THEN [status |-> 0, user |-> NoUser]
    ELSE LET p == decode_token(cred) IN
         IF ~p.ok THEN [status |-> 401, user |-> NoUser]
         ELSE IF ~Truthy(p.sub) THEN [status |-> 0, user |-> NoUser]
         ELSE [status |-> 0, user |-> [id |-> p.sub, role |-> p.role]]

\* The dependency each route declares.
RequiredOps == {"list_playlists", "create_playlist", "rotate_share_token",
                "update_playlist", "add_sound_to_playlist",
                "remove_sound_from_playlist", "reorder_playlist_sounds",
                "create_sound", "update_sound", "delete_sound"}
OptionalOps == {"get_playlist", "list_sounds", "get_creator"}
NoAuthOps == {"get_playlist_share"}

resolve_identity(op, cred) ==
    IF op \in RequiredOps THEN get_current_user(cred)
    ELSE IF op \in OptionalOps THEN get_optional_user(cred)
    ELSE [status |-> 0, user |-> NoUser]

\* ------------------------------------------------------------ text helpers
\* Strings that the code takes apart are sequences of one-character strings.
AlNumLower == {"a", "b", "0", "1"}
Lower(c) == IF c = "A" THEN "a" ELSE IF c = "B" THEN "b" ELSE c

\* re.sub(r"[^a-z0-9]+", "-", s): every run of other characters becomes one "-".
RECURSIVE CollapseRuns(_, _)
CollapseRuns(s, inRun) ==
    IF s = <<>> THEN <<>>
    ELSE IF Head(s) \in AlNumLower THEN <<Head(s)>> \o CollapseRuns(Tail(s), FALSE)
    ELSE IF inRun THEN CollapseRuns(Tail(s), TRUE)
    ELSE <<"-">> \o CollapseRuns(Tail(s), TRUE)

RECURSIVE StripLeft(_, _)
StripLeft(s, cs) ==
    IF s # <<>> /\ Head(s) \in cs THEN StripLeft(Tail(s), cs) ELSE s

RECURSIVE StripRight(_, _)
StripRight(s, cs) ==
    IF s # <<>> /\ s[Len(s)] \in cs THEN StripRight(SubSeq(s, 1, Len(s) - 1), cs) ELSE s

Strip(s, cs) == StripRight(StripLeft(s, cs), cs)

LowerAll(s) == [i \in 1..Len(s) |-> Lower(s[i])]

\* main.slugify
slugify(tag) == Strip(CollapseRuns(LowerAll(Strip(tag, {" "})), FALSE), {"-"})

\* auth._slugify_handle
slugify_handle(value) ==
    LET h == Strip(CollapseRuns(LowerAll(Strip(value, {" "})), FALSE), {"-"})
    IN IF h = <<>> THEN <<"c", "r", "e", "a", "t", "o", "r">> ELSE h

\* storage.safe_name: every character outside [a-zA-Z0-9._-] becomes "-".
SafeChars == AlNumLower \cup {"A", "B", ".", "_", "-"}
safe_name(value) ==
    LET t == Strip(value, {" "})
        cleaned == [i \in 1..Len(t) |-> IF t[i] \in SafeChars THEN t[i] ELSE "-"]
    IN IF cleaned = <<>> THEN <<"s", "o", "u", "n", "d">> ELSE cleaned

\* main.normalize_privacy
privacy_as_sent(value) == value

normalize_privacy(value) ==
    IF value \in {"public", "private", "link_only"} THEN value
    ELSE IF value = "link-only" THEN "link_only"
    ELSE "link_only"

\* main.normalize_tags on a list already split at the commas.
normalize_tags(raw) ==
    SelectSeq([i \in 1..Len(raw) |-> Strip(raw[i], {" "})], LAMBDA t : t # <<>>)

\* A value of the share_token_hash column: the digest of some bytes, or (never
\* written by the code) the bytes themselves.  Distinct inputs give distinct
\* digests.
sha256(bytes) == [alg |-> "sha256", data |-> bytes]
plaintext(bytes) == [alg |-> "none", data |-> bytes]

\* hashlib.sha256(share_token.encode("utf-8")).hexdigest(): the digest of
\* exactly the token's bytes; nothing else is mixed in.
token_stored_as_is(token) == plaintext(<<token>>)

token_hash(token) == sha256(<<token>>)

\* ------------------------------------------------------------------- state
VARIABLES
    rq,          \* the request tasks: handler, position, locals (conn: the
                 \* connection taken last, holds: not yet released, upstream:
                 \* the storage call whose exception ended the request)
    idle,        \* connections free in the pool, the next one handed out last
    conns,       \* per connection: session-level and transaction-local settings
    profiles, playlists, sounds,   \* tables: functions from the ids that have a row
    playlist_sounds,               \* position per (playlist, sound); 0: no row
    tags, sound_tags,              \* display per tag slug; (sound, slug) associations
    blobs,       \* object-storage bucket: the paths that hold an object
    uploaded,    \* history: every path an upload has ever stored
    issued,      \* history: per playlist the tokens persisted for it, oldest first
    nextTok, nextPl, nextSnd   \* fresh values of token_urlsafe and uuid4

vars == <<rq, idle, conns, profiles, playlists, sounds, playlist_sounds, tags,
          sound_tags, blobs, uploaded, issued, nextTok, nextPl, nextSnd>>

dbvars == <<profiles, playlists, sounds, playlist_sounds, tags, sound_tags>>
storevars == <<blobs, uploaded>>
fresh == <<nextTok, nextPl, nextSnd>>

NoArgs == [pl |-> 0, snd |-> 0, tok |-> 0, privacy |-> None, ids |-> <<>>,
           name |-> <<>>, filename |-> <<>>, has_tags |-> FALSE, taglist |-> <<>>,
           creator |-> None, before |-> <<>>]

IdleReq ==
    [op |-> None, phase |-> None, pc |-> "idle", cred |-> NoCred, user |-> NoUser,
     args |-> NoArgs, conn |-> 0, holds |-> FALSE, err |-> 0, status |-> 0,
     found |-> FALSE, paths |-> {}, owners |-> {},
     ctx |-> NoLocal, ctx_scope |-> None, share_token |-> 0, storage_path |-> <<>>,
     position |-> 0, index |-> 0, tag_list |-> <<>>, tag_ids |-> <<>>,
     resp_token |-> 0, new_id |-> 0, privacy |-> None, entered |-> FALSE,
     upstream |-> None]

Init ==
    /\ rq = [r \in Req |-> IdleReq]
    /\ idle = [i \in 1..PoolMax |-> i]
    /\ conns = [c \in Conns |-> FreshConn]
    /\ profiles = <<>>
    /\ playlists = <<>>
    /\ sounds = <<>>
    /\ playlist_sounds = [k \in PlaylistIds \X SoundIds |-> 0]
    /\ tags = <<>>
    /\ sound_tags = {}
    /\ blobs = {}
    /\ uploaded = {}
    /\ issued = [p \in PlaylistIds |-> <<>>]
    /\ nextTok = 1
    /\ nextPl = 1
    /\ nextSnd = 1

\* ------------------------------------------------- scopes of each handler
\* The scoped block a phase runs in: get_service_db or get_db.
ScopeKind(op, phase) ==
    IF phase \in {"ep", "fp", "svc"} \/ op = "get_playlist_share"
    THEN "service" ELSE "user"

ScopeStatements(q) ==
    IF ScopeKind(q.op, q.phase) = "service" THEN get_service_db_statements
    ELSE get_db_statements(q.user.id, IF q.user = NoUser THEN "anon" ELSE q.user.role)

\* The first statement of the block a phase runs.
FirstBody(op, phase) ==
    CASE phase = "ep"  -> "ep_upsert"
      [] phase = "fp"  -> "fp_select"
      [] phase = "svc" -> "gc_profile"
      [] op = "list_playlists" -> "lp_select"
      [] op = "create_playlist" -> "cp_insert"
      [] op = "rotate_share_token" -> "rs_update"
      [] op = "get_playlist" -> "gp_select"
      [] op = "update_playlist" -> "up_update"
      [] op = "get_playlist_share" -> "sh_select"
      [] op = "add_sound_to_playlist" -> "as_playlist"
      [] op = "remove_sound_from_playlist" -> "rm_delete"
      [] op = "reorder_playlist_sounds" -> "ro_update"
      [] op = "list_sounds" -> "ls_select"
      [] op = "get_creator" -> "gc_sounds"
      [] op = "create_sound" -> "cs_insert"
      [] op = "update_sound" -> "us_select"
      [] op = "delete_sound" -> "ds_select"

Finished(q, code) == [q EXCEPT !.pc = "done", !.phase = None, !.status = code]
Respond(q) == Finished(q, 200)
EnterScope(q, phase) == [q EXCEPT !.pc = "acq", !.phase = phase]
Raise(q, code) == [q EXCEPT !.pc = "rel", !.err = code]

\* Where a handler goes on when fetch_profiles returns: the reads sign one
\* URL per row, the others build the response.
AfterFetchProfiles(q) ==
    IF q.op \in {"get_playlist", "get_playlist_share", "list_sounds"} /\ q.paths # {}
    THEN [q EXCEPT !.pc = "sign", !.phase = None]
    ELSE Respond(q)

\* fetch_profiles(profile_ids): no connection is taken for an empty list.
CallFetchProfiles(q) ==
    IF q.owners = {} THEN AfterFetchProfiles(q) ELSE EnterScope(q, "fp")

\* Where a handler goes on when every URL is signed.
AfterSign(q) ==
    IF q.op = "create_sound" THEN CallFetchProfiles(q) ELSE Respond(q)

\* The loop over the rows that awaits create_signed_url for each.
ToSign(q) ==
    IF q.paths = {} THEN AfterSign(q) ELSE [q EXCEPT !.pc = "sign", !.phase = None]

\* Where a handler goes on when its scoped block has exited without raising.
AfterScope(q) ==
    CASE q.phase = "ep" -> [q EXCEPT !.pc = "enter", !.phase = None]
      [] q.phase = "fp" -> AfterFetchProfiles(q)
      [] q.phase = "svc" -> EnterScope(q, "main")
      [] q.op \in {"rotate_share_token", "update_playlist"} /\ ~q.found -> Finished(q, 404)
      [] q.op = "rotate_share_token" -> Respond([q EXCEPT !.resp_token = q.share_token])
      [] q.op = "create_playlist" -> Respond([q EXCEPT !.resp_token = q.share_token])
      [] q.op \in {"get_playlist", "get_playlist_share", "update_playlist", "list_sounds"} ->
            CallFetchProfiles(q)
      [] q.op \in {"get_creator", "create_sound"} -> ToSign(q)
      [] q.op = "delete_sound" -> [q EXCEPT !.pc = "ds_delpath", !.phase = None]
      [] OTHER -> Respond(q)

\* ------------------------------------------------------ the scoped blocks
\* conn = await pool.acquire(): waits until a connection is free; then the
\* statements sent before the yield, statement k + 1 raising when k < Len.
\* (Nothing else can touch the connection between the two.)
acquire(r) ==
    /\ rq[r].pc = "acq"
    /\ idle # <<>>
    /\ LET c == idle[Len(idle)]
           q == [rq[r] EXCEPT !.conn = c, !.holds = TRUE]
           stmts == ScopeStatements(q)
       IN \E k \in 0..Len(stmts) :
            /\ idle' = SubSeq(idle, 1, Len(idle) - 1)
            /\ conns' = [conns EXCEPT ![c] = ExecuteAll(@, SubSeq(stmts, 1, k))]
            /\ rq' = [rq EXCEPT ![r] =
                        IF k = Len(stmts)
                        THEN [q EXCEPT !.pc = FirstBody(q.op, q.phase)]
                        ELSE Raise(q, 500)]
    /\ UNCHANGED <<dbvars, storevars, issued, fresh>>

\* finally: await pool.release(conn); then the exception propagates or the
\* handler goes on.
release(r) ==
    /\ rq[r].pc = "rel"
    /\ LET q == rq[r]
           out == [q EXCEPT !.holds = FALSE]
       IN /\ idle' = pool_release(idle, q.conn, q.err # 0)
          /\ rq' = [rq EXCEPT ![r] =
                      IF q.err # 0 THEN Finished(out, q.err) ELSE AfterScope(out)]
    /\ UNCHANGED <<conns, dbvars, storevars, issued, fresh>>

\* The context a statement of request r is evaluated under, recorded with it.
Evaluated(q) ==
    [q EXCEPT !.ctx = Effective(conns[q.conn]), !.ctx_scope = ScopeKind(q.op, q.phase)]

\* --------------------------------------------------------- request intake
TokenOps == {"create_playlist", "rotate_share_token"}

\* Requests accepted but not yet at their handler's first line, per kind: the
\* fresh values they will draw are kept within the bounds.
Waiting(ops) ==
    Cardinality({x \in Req : rq[x].op \in ops /\ rq[x].pc # "done" /\ ~rq[x].entered})

\* COALESCE(MAX(position), 0) over the given membership rows.
MaxOf(S) == CHOOSE m \in S \cup {0} : \A x \in S : x <= m

InFlight(ops) ==
    Cardinality({x \in Req : rq[x].op \in ops /\ rq[x].pc \notin {"idle", "done"}})

CanDraw(op) ==
    /\ op \in TokenOps => nextTok + Waiting(TokenOps) <= MaxTokens
    /\ op = "create_playlist" => nextPl + Waiting({"create_playlist"}) <= MaxPlaylists
    /\ op = "create_sound" => nextSnd + Waiting({"create_sound"}) <= MaxSounds
    /\ op = "add_sound_to_playlist" =>
          MaxOf({playlist_sounds[k] : k \in DOMAIN playlist_sounds})
             + InFlight({"add_sound_to_playlist"}) < MaxPosition

\* A request arrives: the route, the Authorization header and the inputs.
Begin(r, op, cred, args) ==
    /\ rq[r].pc = "idle"
    /\ CanDraw(op)
    /\ rq' = [rq EXCEPT ![r] = [IdleReq EXCEPT !.op = op, !.pc = "auth",
                                               !.cred = cred, !.args = args]]
    /\ UNCHANGED <<idle, conns, dbvars, storevars, issued, fresh>>

\* The response has been sent; the task ends.
finish(r) ==
    /\ rq[r].pc = "done"
    /\ rq' = [rq EXCEPT ![r] = IdleReq]
    /\ UNCHANGED <<idle, conns, dbvars, storevars, issued, fresh>>

\* Depends(get_current_user) / Depends(get_optional_user): reject with 401,
\* go on as anonymous, or go on to ensure_profile for the subject.
authenticate(r) ==
    /\ rq[r].pc = "auth"
    /\ LET q == rq[r]
           res == resolve_identity(q.op, q.cred)
       IN rq' = [rq EXCEPT ![r] =
                   IF res.status # 0 THEN Finished(q, res.status)
                   ELSE IF res.user = NoUser THEN [q EXCEPT !.pc = "enter"]
                   ELSE EnterScope([q EXCEPT !.user = res.user], "ep")]
    /\ UNCHANGED <<idle, conns, dbvars, storevars, issued, fresh>>

\* ------------------------------------------------------- ensure_profile
\* The claims a token can carry; <<>> stands for a missing or empty value.
\* email holds the part before the "@".
ClaimData ==
    << [full_name |-> <<"A", " ", "b">>, name |-> <<>>, preferred_username |-> <<>>,
        user_name |-> <<>>, email |-> <<"a">>, avatar_url |-> <<>>, picture |-> <<>>],
       [full_name |-> <<>>, name |-> <<>>, preferred_username |-> <<>>,
        user_name |-> <<"b">>, email |-> <<>>, avatar_url |-> <<>>, picture |-> <<"1">>],
       [full_name |-> <<>>, name |-> <<>>, preferred_username |-> <<>>,
        user_name |-> <<>>, email |-> <<>>, avatar_url |-> <<>>, picture |-> <<>>] >>

Or(a, b) == IF a # <<>> THEN a ELSE b

\* user_id[:6]
first6(user_id) ==
    CASE user_id = "aaaaaa-1" -> "aaaaaa"
      [] user_id = "aaaaaa-2" -> "aaaaaa"
      [] user_id = "bbbbbb-1" -> "bbbbbb"
      [] OTHER -> user_id

\* The row ensure_profile computes from the payload.
profile_of(user_id, m) ==
    LET named == Or(m.full_name, Or(m.name, Or(m.preferred_username, m.user_name)))
        display_name == IF named = <<>> /\ m.email # <<>> THEN m.email ELSE named
        avatar_url == Or(m.avatar_url, m.picture)
        creator == <<"c", "r", "e", "a", "t", "o", "r">>
        base_handle == slugify_handle(Or(display_name, Or(m.email, creator)))
    IN [handle |-> <<base_handle, first6(user_id)>>,
        display_name |-> display_name, avatar_url |-> avatar_url]

\* DO UPDATE SET col = EXCLUDED.col: what an overwriting upsert would store.
upsert_overwrite(table, user_id, new) ==
    IF user_id \in DOMAIN table THEN [table EXCEPT ![user_id] = new]
    ELSE table @@ (user_id :> new)

\* INSERT ... ON CONFLICT (id) DO UPDATE SET col = COALESCE(NULLIF(old, ''), new)
upsert_profile(table, user_id, new) ==
    IF user_id \in DOMAIN table
    THEN [table EXCEPT ![user_id] =
            [handle |-> @.handle,
             display_name |-> Or(@.display_name, new.display_name),
             avatar_url |-> Or(@.avatar_url, new.avatar_url)]]
    ELSE table @@ (user_id :> new)

\* profiles.handle is unique: the INSERT of a new id raises a unique violation
\* when another profile holds the handle (ON CONFLICT (id) does not cover it).
handle_taken(table, user_id, handle) ==
    /\ user_id \notin DOMAIN table
    /\ \E u \in DOMAIN table : table[u].handle = handle

ensure_profile(r) ==
    /\ rq[r].pc = "ep_upsert"
    /\ LET q == Evaluated(rq[r])
           new == profile_of(q.user.id, ClaimData[q.cred.meta])
       IN
       \E ok \in BOOLEAN :
         IF ok /\ ~handle_taken(profiles, q.user.id, new.handle)
         THEN /\ profiles' = upsert_profile(profiles, q.user.id, new)
              /\ rq' = [rq EXCEPT ![r] = [q EXCEPT !.pc = "rel"]]
         ELSE /\ rq' = [rq EXCEPT ![r] = Raise(q, 500)]
              /\ UNCHANGED profiles
    /\ UNCHANGED <<idle, conns, playlists, sounds, playlist_sounds, tags, sound_tags,
                   storevars, issued, fresh>>

\* fetch_profiles: SELECT ... FROM profiles WHERE id = ANY($1)
fetch_profiles(r) ==
    /\ rq[r].pc = "fp_select"
    /\ LET q == Evaluated(rq[r]) IN
       \E ok \in BOOLEAN :
         rq' = [rq EXCEPT ![r] = IF ok THEN [q EXCEPT !.pc = "rel"] ELSE Raise(q, 500)]
    /\ UNCHANGED <<idle, conns, dbvars, storevars, issued, fresh>>

\* ------------------------------------------------------- handler entry
\* The lines of a handler before its first await: the values it draws and
\* the inputs it normalises.  create_sound answers 400 when neither a name
\* nor a file name is given, before it draws the sound id.
enter_handler(r) ==
    /\ rq[r].pc = "enter"
    /\ LET q == [rq[r] EXCEPT !.entered = TRUE]
           stripped == Strip(q.args.name, {" "})
           display_name == IF stripped # <<>> THEN stripped ELSE q.args.filename
           rejected == q.op = "create_sound" /\ display_name = <<>>
           drawsTok == q.op \in TokenOps
           drawsPl == q.op = "create_playlist"
           drawsSnd == q.op = "create_sound" /\ ~rejected
           q1 == [q EXCEPT
                    !.share_token = IF drawsTok THEN nextTok ELSE 0,
                    !.new_id = IF drawsPl THEN nextPl ELSE IF drawsSnd THEN nextSnd ELSE 0,
                    !.storage_path =
                       IF drawsSnd
                       THEN <<q.user.id, nextSnd, safe_name(Or(q.args.filename, display_name))>>
                       ELSE <<>>,
                    !.tag_list =
                       IF q.op = "update_sound" /\ q.args.has_tags
                       THEN normalize_tags(q.args.taglist) ELSE <<>>,
                    !.privacy =
                       IF q.op = "create_playlist"
                       THEN normalize_privacy(q.args.privacy)
                       ELSE IF q.op \in {"update_playlist", "update_sound"}
                               /\ q.args.privacy # None
                       THEN normalize_privacy(q.args.privacy)
                       ELSE None]
       IN /\ nextTok' = IF drawsTok THEN nextTok + 1 ELSE nextTok
          /\ nextPl' = IF drawsPl THEN nextPl + 1 ELSE nextPl
          /\ nextSnd' = IF drawsSnd THEN nextSnd + 1 ELSE nextSnd
          /\ rq' = [rq EXCEPT ![r] =
                      IF rejected THEN Finished(q, 400)
                      ELSE IF q.op = "create_sound" THEN [q1 EXCEPT !.pc = "cs_upload"]
                      ELSE EnterScope(q1, IF q.op = "get_creator" THEN "svc" ELSE "main")]
    /\ UNCHANGED <<idle, conns, dbvars, storevars, issued>>

\* ------------------------------------------------------------ playlists
\* create_playlist: INSERT INTO playlists (...) VALUES (...)
create_playlist(r) ==
    /\ rq[r].pc = "cp_insert"
    /\ LET q == Evaluated(rq[r]) IN
       \E ok \in BOOLEAN :
         IF ok
         THEN /\ playlists' = playlists @@
                    (q.new_id :> [owner_id |-> q.user.id, privacy |-> q.privacy,
                                  share_token_hash |-> token_hash(q.share_token)])
              /\ issued' = [issued EXCEPT ![q.new_id] = Append(@, q.share_token)]
              /\ rq' = [rq EXCEPT ![r] = [q EXCEPT !.pc = "rel", !.found = TRUE]]
         ELSE /\ rq' = [rq EXCEPT ![r] = Raise(q, 500)]
              /\ UNCHANGED <<playlists, issued>>
    /\ UNCHANGED <<idle, conns, profiles, sounds, playlist_sounds, tags, sound_tags,
                   storevars, fresh>>

\* rotate_share_token: UPDATE playlists SET share_token_hash = $1 WHERE id = $2
rotate_without_update(table, id, h) == table

rotate_update(table, id, h) == [table EXCEPT ![id].share_token_hash = h]

rotate_share_token(r) ==
    /\ rq[r].pc = "rs_update"
    /\ LET q == Evaluated(rq[r])
           hit == q.args.pl \in DOMAIN playlists
       IN \E ok \in BOOLEAN :
         IF ok /\ hit
         THEN /\ playlists' = rotate_update(playlists, q.args.pl, token_hash(q.share_token))
              /\ issued' = [issued EXCEPT ![q.args.pl] = Append(@, q.share_token)]
              /\ rq' = [rq EXCEPT ![r] = [q EXCEPT !.pc = "rel", !.found = TRUE]]
         ELSE /\ rq' = [rq EXCEPT ![r] =
                          IF ok THEN [q EXCEPT !.pc = "rel", !.found = FALSE]
                          ELSE Raise(q, 500)]
              /\ UNCHANGED <<playlists, issued>>
    /\ UNCHANGED <<idle, conns, profiles, sounds, playlist_sounds, tags, sound_tags,
                   storevars, fresh>>

\* update_playlist: UPDATE playlists SET privacy = COALESCE($3, privacy) WHERE id = $4
update_playlist(r) ==
    /\ rq[r].pc = "up_update"
    /\ LET q == Evaluated(rq[r])
           hit == q.args.pl \in DOMAIN playlists
       IN \E ok \in BOOLEAN :
         IF ok /\ hit
         THEN /\ playlists' = [playlists EXCEPT ![q.args.pl].privacy =
                                  IF q.privacy # None THEN q.privacy ELSE @]
              /\ rq' = [rq EXCEPT ![r] =
                          [q EXCEPT !.pc = "rel", !.found = TRUE,
                                    !.owners = {playlists[q.args.pl].owner_id}]]
         ELSE /\ rq' = [rq EXCEPT ![r] =
                          IF ok THEN [q EXCEPT !.pc = "rel", !.found = FALSE]
                          ELSE Raise(q, 500)]
              /\ UNCHANGED playlists
    /\ UNCHANGED <<idle, conns, profiles, sounds, playlist_sounds, tags, sound_tags,
                   storevars, issued, fresh>>

\* The rows of the sounds query of a playlist: JOIN of playlist_sounds and sounds.
SoundsOf(pl) == {s \in DOMAIN sounds : playlist_sounds[<<pl, s>>] # 0}

WithSounds(q, snds) ==
    [q EXCEPT !.pc = "rel",
              !.paths = {sounds[s].storage_path : s \in snds},
              !.owners = q.owners \cup {sounds[s].owner_id : s \in snds}]

\* get_playlist_share, first query:
\* SELECT ... FROM playlists WHERE share_token_hash = $1 AND privacy = 'link_only'
share_lookup_any_privacy(table, token) ==
    {p \in DOMAIN table : table[p].share_token_hash = token_hash(token)}

share_lookup(table, token) ==
    {p \in DOMAIN table : /\ table[p].share_token_hash = token_hash(token)
                          /\ table[p].privacy = "link_only"}

get_playlist_share(r) ==
    /\ rq[r].pc = "sh_select"
    /\ LET q == Evaluated(rq[r])
           rows == share_lookup(playlists, q.args.tok)
       IN \E ok \in BOOLEAN :
            IF ~ok THEN rq' = [rq EXCEPT ![r] = Raise(q, 500)]
            ELSE IF rows = {} THEN rq' = [rq EXCEPT ![r] = Raise(q, 404)]
            ELSE \E p \in rows :
                   rq' = [rq EXCEPT ![r] = [q EXCEPT !.pc = "sh_sounds", !.found = TRUE,
                                                     !.args.pl = p,
                                                     !.owners = {playlists[p].owner_id}]]
    /\ UNCHANGED <<idle, conns, dbvars, storevars, issued, fresh>>

\* get_playlist_share, second query: the sounds of the playlist found.
get_playlist_share_sounds(r) ==
    /\ rq[r].pc = "sh_sounds"
    /\ LET q == Evaluated(rq[r]) IN
       \E ok \in BOOLEAN :
         rq' = [rq EXCEPT ![r] =
                  IF ok THEN WithSounds(q, SoundsOf(q.args.pl)) ELSE Raise(q, 500)]
    /\ UNCHANGED <<idle, conns, dbvars, storevars, issued, fresh>>

\* get_playlist, first query: SELECT ... FROM playlists WHERE id = $1
get_playlist(r) ==
    /\ rq[r].pc = "gp_select"
    /\ LET q == Evaluated(rq[r]) IN
       \E ok \in BOOLEAN :
         rq' = [rq EXCEPT ![r] =
                  IF ~ok THEN Raise(q, 500)
                  ELSE IF q.args.pl \notin DOMAIN playlists THEN Raise(q, 404)
                  ELSE [q EXCEPT !.pc = "gp_sounds", !.found = TRUE,
                                 !.owners = {playlists[q.args.pl].owner_id}]]
    /\ UNCHANGED <<idle, conns, dbvars, storevars, issued, fresh>>

\* get_playlist, second query: the sounds of the playlist.
get_playlist_sounds(r) ==
    /\ rq[r].pc = "gp_sounds"
    /\ LET q == Evaluated(rq[r]) IN
       \E ok \in BOOLEAN :
         rq' = [rq EXCEPT ![r] =
                  IF ok THEN WithSounds(q, SoundsOf(q.args.pl)) ELSE Raise(q, 500)]
    /\ UNCHANGED <<idle, conns, dbvars, storevars, issued, fresh>>

\* ------------------------------------------------------ object storage
\* create_signed_url(path) for the next row: the call raises when the bucket
\* holds no object at the path, and may fail upstream; nothing catches it.
sign_url(r) ==
    /\ rq[r].pc = "sign"
    /\ LET q == rq[r] IN
       \E p \in q.paths, ok \in BOOLEAN :
         rq' = [rq EXCEPT ![r] =
                  IF ok /\ p \in blobs
                  THEN ToSign([q EXCEPT !.paths = @ \ {p}])
                  ELSE Finished([q EXCEPT !.upstream = "create_signed_url"], 500)]
    /\ UNCHANGED <<idle, conns, dbvars, storevars, issued, fresh>>

\* ------------------------------------------------------------ read routes
\* list_playlists: SELECT ... FROM playlists p LEFT JOIN playlist_sounds ps ...
list_playlists(r) ==
    /\ rq[r].pc = "lp_select"
    /\ LET q == Evaluated(rq[r]) IN
       \E ok \in BOOLEAN :
         rq' = [rq EXCEPT ![r] = IF ok THEN [q EXCEPT !.pc = "rel"] ELSE Raise(q, 500)]
    /\ UNCHANGED <<idle, conns, dbvars, storevars, issued, fresh>>

\* list_sounds: SELECT ... FROM sounds s ... WHERE ($3 IS NULL OR s.owner_id = $3)
list_sounds(r) ==
    /\ rq[r].pc = "ls_select"
    /\ LET q == Evaluated(rq[r])
           rows == {s \in DOMAIN sounds :
                       q.args.creator = None \/ sounds[s].owner_id = q.args.creator}
       IN \E ok \in BOOLEAN :
            rq' = [rq EXCEPT ![r] = IF ok THEN WithSounds(q, rows) ELSE Raise(q, 500)]
    /\ UNCHANGED <<idle, conns, dbvars, storevars, issued, fresh>>

\* get_creator, service block: SELECT ... FROM profiles WHERE id = $1; a
\* missing profile is answered with empty profile data, not with an error.
get_creator(r) ==
    /\ rq[r].pc = "gc_profile"
    /\ LET q == Evaluated(rq[r]) IN
       \E ok \in BOOLEAN :
         rq' = [rq EXCEPT ![r] =
                  IF ok THEN [q EXCEPT !.pc = "rel",
                                       !.found = q.args.creator \in DOMAIN profiles]
                  ELSE Raise(q, 500)]
    /\ UNCHANGED <<idle, conns, dbvars, storevars, issued, fresh>>

\* get_creator, user block, first query: the creator's sounds.
get_creator_sounds(r) ==
    /\ rq[r].pc = "gc_sounds"
    /\ LET q == Evaluated(rq[r])
           rows == {s \in DOMAIN sounds : sounds[s].owner_id = q.args.creator}
       IN \E ok \in BOOLEAN :
            rq' = [rq EXCEPT ![r] =
                     IF ok THEN [WithSounds(q, rows) EXCEPT !.pc = "gc_playlists"]
                     ELSE Raise(q, 500)]
    /\ UNCHANGED <<idle, conns, dbvars, storevars, issued, fresh>>

\* get_creator, user block, second query: the creator's playlists.
get_creator_playlists(r) ==
    /\ rq[r].pc = "gc_playlists"
    /\ LET q == Evaluated(rq[r]) IN
       \E ok \in BOOLEAN :
         rq' = [rq EXCEPT ![r] = IF ok THEN [q EXCEPT !.pc = "rel"] ELSE Raise(q, 500)]
    /\ UNCHANGED <<idle, conns, dbvars, storevars, issued, fresh>>

\* ----------------------------------------------------- playlist membership
\* add_sound_to_playlist, first query: SELECT id FROM playlists WHERE id = $1
add_sound_to_playlist(r) ==
    /\ rq[r].pc = "as_playlist"
    /\ LET q == Evaluated(rq[r]) IN
       \E ok \in BOOLEAN :
         rq' = [rq EXCEPT ![r] =
                  IF ~ok THEN Raise(q, 500)
                  ELSE IF q.args.pl \notin DOMAIN playlists THEN Raise(q, 404)
                  ELSE [q EXCEPT !.pc = "as_sound"]]
    /\ UNCHANGED <<idle, conns, dbvars, storevars, issued, fresh>>

\* add_sound_to_playlist, second query: SELECT id FROM sounds WHERE id = $1
add_sound_select_sound(r) ==
    /\ rq[r].pc = "as_sound"
    /\ LET q == Evaluated(rq[r]) IN
       \E ok \in BOOLEAN :
         rq' = [rq EXCEPT ![r] =
                  IF ~ok THEN Raise(q, 500)
                  ELSE IF q.args.snd \notin DOMAIN sounds THEN Raise(q, 404)
                  ELSE [q EXCEPT !.pc = "as_position", !.found = TRUE]]
    /\ UNCHANGED <<idle, conns, dbvars, storevars, issued, fresh>>

\* add_sound_to_playlist, third query: COALESCE(MAX(position), 0) + 1
add_sound_position(r) ==
    /\ rq[r].pc = "as_position"
    /\ LET q == Evaluated(rq[r])
           rows == {playlist_sounds[k] :
                       k \in {x \in DOMAIN playlist_sounds : x[1] = q.args.pl}}
       IN \E ok \in BOOLEAN :
            rq' = [rq EXCEPT ![r] =
                     IF ok THEN [q EXCEPT !.pc = "as_insert", !.position = MaxOf(rows) + 1]
                     ELSE Raise(q, 500)]
    /\ UNCHANGED <<idle, conns, dbvars, storevars, issued, fresh>>

\* add_sound_to_playlist: INSERT INTO playlist_sounds ... ON CONFLICT DO NOTHING
add_sound_insert(r) ==
    /\ rq[r].pc = "as_insert"
    /\ LET q == Evaluated(rq[r])
           k == <<q.args.pl, q.args.snd>>
       IN \E ok \in BOOLEAN :
            IF ok
            THEN /\ playlist_sounds' = IF playlist_sounds[k] # 0 THEN playlist_sounds
                                       ELSE [playlist_sounds EXCEPT ![k] = q.position]
                 /\ rq' = [rq EXCEPT ![r] = [q EXCEPT !.pc = "rel"]]
            ELSE /\ rq' = [rq EXCEPT ![r] = Raise(q, 500)]
                 /\ UNCHANGED playlist_sounds
    /\ UNCHANGED <<idle, conns, profiles, playlists, sounds, tags, sound_tags,
                   storevars, issued, fresh>>

\* remove_sound_from_playlist:
\* DELETE FROM playlist_sounds WHERE playlist_id = $1 AND sound_id = $2
remove_sound_from_playlist(r) ==
    /\ rq[r].pc = "rm_delete"
    /\ LET q == Evaluated(rq[r])
           k == <<q.args.pl, q.args.snd>>
       IN \E ok \in BOOLEAN :
            IF ok
            THEN /\ playlist_sounds' = [playlist_sounds EXCEPT ![k] = 0]
                 /\ rq' = [rq EXCEPT ![r] = [q EXCEPT !.pc = "rel"]]
            ELSE /\ rq' = [rq EXCEPT ![r] = Raise(q, 500)]
                 /\ UNCHANGED playlist_sounds
    /\ UNCHANGED <<idle, conns, profiles, playlists, sounds, tags, sound_tags,
                   storevars, issued, fresh>>

\* reorder_playlist_sounds: for index, sound_id in enumerate(sound_ids, start=1):
\* UPDATE playlist_sounds SET position = $1 WHERE playlist_id = $2 AND sound_id = $3
\* (q.index counts the statements already sent.)
enumerate_from_zero(done) == done

enumerate_index(done) == done + 1

\* The UPDATE: the row of (playlist_id, sound_id), when there is one.
reorder_upsert(table, playlist_id, sound_id, index) ==
    [table EXCEPT ![<<playlist_id, sound_id>>] = index]

reorder_update(table, playlist_id, sound_id, index) ==
    IF table[<<playlist_id, sound_id>>] = 0 THEN table
    ELSE [table EXCEPT ![<<playlist_id, sound_id>>] = index]

reorder_playlist_sounds(r) ==
    /\ rq[r].pc = "ro_update"
    /\ IF rq[r].index = Len(rq[r].args.ids)
       THEN /\ rq' = [rq EXCEPT ![r].pc = "rel"]
            /\ UNCHANGED playlist_sounds
       ELSE LET q == Evaluated(rq[r])
                sound_id == q.args.ids[q.index + 1]
                index == enumerate_index(q.index)
            IN \E ok \in BOOLEAN :
                 IF ok
                 THEN /\ playlist_sounds' =
                            reorder_update(playlist_sounds, q.args.pl, sound_id, index)
                      /\ rq' = [rq EXCEPT ![r] = [q EXCEPT !.index = q.index + 1]]
                 ELSE /\ rq' = [rq EXCEPT ![r] = Raise(q, 500)]
                      /\ UNCHANGED playlist_sounds
    /\ UNCHANGED <<idle, conns, profiles, playlists, sounds, tags, sound_tags,
                   storevars, issued, fresh>>

\* ------------------------------------------------------------------- tags
\* The sound a tag statement is about.
TargetSound(q) == IF q.op = "create_sound" THEN q.new_id ELSE q.args.snd

\* ensure_tags skips a tag whose slug is empty: the next position at or after
\* i whose tag has a slug, 0 when there is none.
RECURSIVE NextTag(_, _)
NextTag(tag_list, i) ==
    IF i > Len(tag_list) THEN 0
    ELSE IF slugify(tag_list[i]) # <<>> THEN i
    ELSE NextTag(tag_list, i + 1)

\* attach_tags from position i on: the next statement of ensure_tags, then
\* "if not tag_ids: return []", then the loop over tag_ids.
ToEnsureTags(q, i) ==
    LET j == NextTag(q.tag_list, i) IN
    IF j # 0 THEN [q EXCEPT !.pc = "et_upsert", !.index = j]
    ELSE IF q.tag_ids = <<>> THEN [q EXCEPT !.pc = "rel"]
    ELSE [q EXCEPT !.pc = "at_insert", !.index = 0]

\* ensure_tags: INSERT INTO tags (slug, display) ... ON CONFLICT (slug)
\* DO UPDATE SET display = EXCLUDED.display RETURNING id
ensure_tags(r) ==
    /\ rq[r].pc = "et_upsert"
    /\ LET q == Evaluated(rq[r])
           tag == q.tag_list[q.index]
           slug == slugify(tag)
       IN \E ok \in BOOLEAN :
            IF ok
            THEN /\ tags' = IF slug \in DOMAIN tags THEN [tags EXCEPT ![slug] = tag]
                            ELSE tags @@ (slug :> tag)
                 /\ rq' = [rq EXCEPT ![r] =
                             ToEnsureTags([q EXCEPT !.tag_ids = Append(@, slug)], q.index + 1)]
            ELSE /\ rq' = [rq EXCEPT ![r] = Raise(q, 500)]
                 /\ UNCHANGED tags
    /\ UNCHANGED <<idle, conns, profiles, playlists, sounds, playlist_sounds, sound_tags,
                   storevars, issued, fresh>>

\* attach_tags: INSERT INTO sound_tags (sound_id, tag_id) ... ON CONFLICT DO NOTHING
attach_tags(r) ==
    /\ rq[r].pc = "at_insert"
    /\ LET q == Evaluated(rq[r])
           index == q.index + 1
       IN \E ok \in BOOLEAN :
            IF ok
            THEN /\ sound_tags' = sound_tags \cup {<<TargetSound(q), q.tag_ids[index]>>}
                 /\ rq' = [rq EXCEPT ![r] =
                             IF index = Len(q.tag_ids) THEN [q EXCEPT !.pc = "rel"]
                             ELSE [q EXCEPT !.index = index]]
            ELSE /\ rq' = [rq EXCEPT ![r] = Raise(q, 500)]
                 /\ UNCHANGED sound_tags
    /\ UNCHANGED <<idle, conns, profiles, playlists, sounds, playlist_sounds, tags,
                   storevars, issued, fresh>>

\* ----------------------------------------------------------------- sounds
\* upload_bytes(storage_path, ...): only StorageException is caught and turned
\* into 502; any other exception of the call leaves the handler as it is.
upload_bytes(r) ==
    /\ rq[r].pc = "cs_upload"
    /\ LET q == rq[r] IN
       \E outcome \in {"stored", "StorageException", "Exception"} :
         IF outcome = "stored"
         THEN /\ blobs' = blobs \cup {q.storage_path}
              /\ uploaded' = uploaded \cup {q.storage_path}
              /\ rq' = [rq EXCEPT ![r] =
                          EnterScope([q EXCEPT !.privacy = normalize_privacy(q.args.privacy),
                                               !.tag_list = normalize_tags(q.args.taglist)],
                                     "main")]
         ELSE /\ rq' = [rq EXCEPT ![r] =
                          Finished([q EXCEPT !.upstream = "upload_bytes"],
                                   IF outcome = "StorageException" THEN 502 ELSE 500)]
              /\ UNCHANGED <<blobs, uploaded>>
    /\ UNCHANGED <<idle, conns, dbvars, issued, fresh>>

\* create_sound: INSERT INTO sounds (id, owner_id, ..., storage_path, ..., privacy)
create_sound(r) ==
    /\ rq[r].pc = "cs_insert"
    /\ LET q == Evaluated(rq[r]) IN
       \E ok \in BOOLEAN :
         IF ok
         THEN /\ sounds' = sounds @@
                    (q.new_id :> [owner_id |-> q.user.id, storage_path |-> q.storage_path,
                                  privacy |-> q.privacy])
              /\ rq' = [rq EXCEPT ![r] =
                          ToEnsureTags([q EXCEPT !.found = TRUE,
                                                 !.paths = {q.storage_path},
                                                 !.owners = {q.user.id}], 1)]
         ELSE /\ rq' = [rq EXCEPT ![r] = Raise(q, 500)]
              /\ UNCHANGED sounds
    /\ UNCHANGED <<idle, conns, profiles, playlists, playlist_sounds, tags, sound_tags,
                   storevars, issued, fresh>>

\* update_sound, first query: SELECT id FROM sounds WHERE id = $1
update_sound(r) ==
    /\ rq[r].pc = "us_select"
    /\ LET q == Evaluated(rq[r]) IN
       \E ok \in BOOLEAN :
         rq' = [rq EXCEPT ![r] =
                  IF ~ok THEN Raise(q, 500)
                  ELSE IF q.args.snd \notin DOMAIN sounds THEN Raise(q, 404)
                  ELSE [q EXCEPT !.pc = "us_update", !.found = TRUE]]
    /\ UNCHANGED <<idle, conns, dbvars, storevars, issued, fresh>>

\* update_sound: UPDATE sounds SET ..., privacy = COALESCE($2, privacy) WHERE id = $3
update_sound_row(r) ==
    /\ rq[r].pc = "us_update"
    /\ LET q == Evaluated(rq[r]) IN
       \E ok \in BOOLEAN :
         IF ok
         THEN /\ sounds' = IF q.args.snd \in DOMAIN sounds /\ q.privacy # None
                           THEN [sounds EXCEPT ![q.args.snd].privacy = q.privacy]
                           ELSE sounds
              /\ rq' = [rq EXCEPT ![r] =
                          [q EXCEPT !.pc = IF q.args.has_tags THEN "us_deltags" ELSE "rel"]]
         ELSE /\ rq' = [rq EXCEPT ![r] = Raise(q, 500)]
              /\ UNCHANGED sounds
    /\ UNCHANGED <<idle, conns, profiles, playlists, playlist_sounds, tags, sound_tags,
                   storevars, issued, fresh>>

\* update_sound: DELETE FROM sound_tags WHERE sound_id = $1, then attach_tags
update_sound_tags(r) ==
    /\ rq[r].pc = "us_deltags"
    /\ LET q == Evaluated(rq[r]) IN
       \E ok \in BOOLEAN :
         IF ok
         THEN /\ sound_tags' = {x \in sound_tags : x[1] # q.args.snd}
              /\ rq' = [rq EXCEPT ![r] = ToEnsureTags(q, 1)]
         ELSE /\ rq' = [rq EXCEPT ![r] = Raise(q, 500)]
              /\ UNCHANGED sound_tags
    /\ UNCHANGED <<idle, conns, profiles, playlists, sounds, playlist_sounds, tags,
                   storevars, issued, fresh>>

\* DELETE FROM sounds WHERE id = $1.  Rows of other tables that refer to the
\* sound are reached only through joins with sounds.
delete_row_skipped(table, id) == table

delete_row(table, id) == [x \in DOMAIN table \ {id} |-> table[x]]

\* delete_sound, first query: SELECT storage_path FROM sounds WHERE id = $1
delete_sound(r) ==
    /\ rq[r].pc = "ds_select"
    /\ LET q == Evaluated(rq[r]) IN
       \E ok \in BOOLEAN :
         rq' = [rq EXCEPT ![r] =
                  IF ~ok THEN Raise(q, 500)
                  ELSE IF q.args.snd \notin DOMAIN sounds THEN Raise(q, 404)
                  ELSE [q EXCEPT !.pc = "ds_delete", !.found = TRUE,
                                 !.storage_path = sounds[q.args.snd].storage_path]]
    /\ UNCHANGED <<idle, conns, dbvars, storevars, issued, fresh>>

\* delete_sound, the DELETE, still inside the block.
delete_sound_row(r) ==
    /\ rq[r].pc = "ds_delete"
    /\ LET q == Evaluated(rq[r]) IN
       \E ok \in BOOLEAN :
         IF ok
         THEN /\ sounds' = delete_row(sounds, q.args.snd)
              /\ rq' = [rq EXCEPT ![r] = [q EXCEPT !.pc = "rel"]]
         ELSE /\ rq' = [rq EXCEPT ![r] = Raise(q, 500)]
              /\ UNCHANGED sounds
    /\ UNCHANGED <<idle, conns, profiles, playlists, playlist_sounds, tags, sound_tags,
                   storevars, issued, fresh>>

\* delete_sound, after the block: await delete_path(row["storage_path"]); one
\* call, nothing catches its exception and nothing calls it again.
delete_path(r) ==
    /\ rq[r].pc = "ds_delpath"
    /\ LET q == rq[r] IN
       \E ok \in BOOLEAN :
         IF ok
         THEN /\ blobs' = blobs \ {q.storage_path}
              /\ rq' = [rq EXCEPT ![r] = Respond(q)]
         ELSE /\ rq' = [rq EXCEPT ![r] = Finished([q EXCEPT !.upstream = "delete_path"], 500)]
              /\ UNCHANGED blobs
    /\ UNCHANGED <<idle, conns, dbvars, uploaded, issued, fresh>>

\* ----------------------------------------------------------------- claims
ExpectedContext(q) ==
    [rs |-> "on",
     sub |-> IF q.user = NoUser THEN "" ELSE q.user.id,
     role |-> IF q.user = NoUser THEN "anon" ELSE q.user.role]

\* C1 (as claimed): every statement a handler executes on the user-scoped
\* handle is evaluated with row security on and with the session variables
\* equal to the caller's subject id and role ("" and anon for no caller).
C1_StatementsUnderCallerContext ==
    \A r \in Req :
       rq[r].ctx_scope = "user" => rq[r].ctx = ExpectedContext(rq[r])

\* C2: no statement is evaluated under a subject id, role or row-security
\* setting bound by another request, and a connection that is back in the
\* pool carries no caller's context.
C2_NoContextLeak ==
    /\ \A i \in 1..Len(idle) : conns[idle[i]] = FreshConn
    /\ \A r \in Req :
          rq[r].ctx_scope # None =>
             /\ rq[r].ctx.sub \in {Unset, ExpectedContext(rq[r]).sub}
             /\ rq[r].ctx.role \in {Unset, ExpectedContext(rq[r]).role}
             /\ rq[r].ctx.rs \in {DefaultSettings.rs,
                                  IF rq[r].ctx_scope = "user" THEN "on" ELSE "off"}

\* C2 witness: a statement of one caller has been evaluated on the connection
\* that a finished request of another subject used and returned before.
C2_Witness ==
    \E r1, r2 \in Req :
       /\ rq[r1].pc = "done" /\ rq[r1].status = 200 /\ rq[r1].user # NoUser
       /\ rq[r2].ctx_scope = "user" /\ rq[r2].holds
       /\ rq[r2].conn = rq[r1].conn
       /\ rq[r2].user # rq[r1].user

ScopePcs == {"ep_upsert", "fp_select", "gc_profile", "lp_select", "cp_insert",
             "rs_update", "gp_select", "gp_sounds", "up_update", "sh_select",
             "sh_sounds", "as_playlist", "as_sound", "as_position", "as_insert",
             "rm_delete", "ro_update", "ls_select", "gc_sounds", "gc_playlists",
             "cs_insert", "et_upsert", "at_insert", "us_select", "us_update",
             "us_deltags", "ds_select", "ds_delete", "rel"}

Held == {rq[r].conn : r \in {x \in Req : rq[x].holds}}
Free == {idle[i] : i \in 1..Len(idle)}

\* C3: a connection is checked out exactly while a request is inside a scoped
\* block, whatever way the block is left; when no request is in flight every
\* connection is back in the pool.
C3_ReleasedOnEveryExit ==
    /\ \A r \in Req : rq[r].holds <=> rq[r].pc \in ScopePcs
    /\ Held \cup Free = Conns
    /\ Len(idle) + Cardinality({r \in Req : rq[r].holds}) = PoolMax
    /\ (\A r \in Req : rq[r].pc \in {"idle", "done"}) => Len(idle) = PoolMax

\* The token most recently issued for a playlist (0: none).
Latest(p) == IF issued[p] = <<>> THEN 0 ELSE issued[p][Len(issued[p])]

ShareFound(r) == rq[r].pc = "sh_select" /\ rq'[r].pc = "sh_sounds"

\* C4: a share lookup finds a playlist only for the token most recently
\* issued for that playlist (by create or the latest rotate) and only while
\* its privacy is link_only; any other token is answered not-found (or the
\* statement failed).
C4_ShareOnlyLatestTokenWhileLinkOnly ==
    [][\A r \in Req :
         /\ ShareFound(r) =>
               /\ Latest(rq'[r].args.pl) = rq[r].args.tok
               /\ playlists[rq'[r].args.pl].privacy = "link_only"
         /\ (/\ rq[r].pc = "sh_select" /\ rq'[r].pc # "sh_select"
             /\ \A p \in DOMAIN playlists : Latest(p) # rq[r].args.tok)
               => rq'[r].err \in {404, 500}]_vars

\* C4 witness: after a rotate, a lookup with the token of that rotate has
\* been served.
C4_Witness ==
    \E r \in Req :
       /\ rq[r].op = "get_playlist_share" /\ rq[r].pc = "done" /\ rq[r].status = 200
       /\ Len(issued[rq[r].args.pl]) >= 2
       /\ rq[r].args.tok = Latest(rq[r].args.pl)
       /\ playlists[rq[r].args.pl].privacy = "link_only"

Salts == {"s1", "s2"}

C3_Witness ==
    \E r1, r2 \in Req :
       /\ rq[r1].pc = "done" /\ rq[r1].status = 500
       /\ rq[r1].op = "get_playlist_share" /\ rq[r1].ctx_scope = None
       /\ rq[r1].conn # 0
       /\ rq[r2].pc = "done" /\ rq[r2].status = 404 /\ rq[r2].op = "get_playlist_share"
       /\ Len(idle) = PoolMax

\* The routes the documentation lists as optionally authenticated.
SoftFailRoutes == {"list_playlists", "get_playlist", "list_sounds", "get_creator"}

\* A credential that names no caller: missing, expired, invalid, or without sub.
Unusable(cred) == cred.kind # "valid" \/ ~Truthy(cred.sub)

\* C6 (as claimed): on GET /playlists, GET /playlists/{id}, GET /sounds and
\* GET /creators/{id} a request whose credential is missing, expired or
\* otherwise invalid is never answered 401: it is served as an anonymous caller.
C6_OptionalRoutesSoftFail ==
    \A r \in Req :
       (/\ rq[r].op \in SoftFailRoutes
        /\ Unusable(rq[r].cred)
        /\ rq[r].pc = "done")
          => rq[r].status # 401 /\ rq[r].user = NoUser

\* The statements that look for the row a request is addressed to, and
\* whether that row is missing.
TargetMissing(q) ==
    CASE q.pc \in {"rs_update", "up_update", "gp_select", "as_playlist",
                   "rm_delete", "ro_update"} -> q.args.pl \notin DOMAIN playlists
      [] q.pc \in {"as_sound", "us_select", "ds_select"} -> q.args.snd \notin DOMAIN sounds
      [] q.pc = "sh_select" -> share_lookup(playlists, q.args.tok) = {}
      [] OTHER -> FALSE

\* C7 (as claimed): every step of an operation addressed to a playlist, sound
\* or share token that does not exist leads to a not-found answer (or the
\* statement failed) and changes no table; this covers reorder and
\* remove-membership addressed to an absent playlist id.
C7_MissingTargetIsNotFound ==
    [][\A r \in Req :
         (TargetMissing(rq[r]) /\ rq'[r] # rq[r]) =>
            /\ UNCHANGED dbvars
            /\ \/ rq'[r].err \in {404, 500}
               \/ /\ rq[r].op \in {"rotate_share_token", "update_playlist"}
                  /\ rq'[r].pc = "rel" /\ ~rq'[r].found]_vars

\* C8 (as claimed): a request that ended because an object-storage call
\* failed (upload_bytes, create_signed_url, delete_path) is answered 502.
C8_StorageFailureIs502 ==
    \A r \in Req :
       (rq[r].pc = "done" /\ rq[r].upstream # None) => rq[r].status = 502

\* The tag associations attach_tags writes for the tags of a create request.
TagSlugs(tag_list) ==
    {slugify(tag_list[i]) : i \in 1..Len(tag_list)} \ {<<>>}

\* The ordering part of C9: no sounds row and no tag association is written
\* before or without a stored upload, and every sounds row has had its blob
\* stored at <<owner_id, sound_id, file name>>.
C9_UploadPrecedesRow ==
    /\ \A r \in Req :
          (/\ rq[r].op = "create_sound"
           /\ rq[r].pc = "cs_upload" \/ (rq[r].pc = "done" /\ rq[r].upstream = "upload_bytes"))
             => /\ rq[r].new_id \notin DOMAIN sounds
                /\ \A x \in sound_tags : x[1] # rq[r].new_id
    /\ \A s \in DOMAIN sounds :
          /\ sounds[s].storage_path \in uploaded
          /\ sounds[s].storage_path[1] = sounds[s].owner_id
          /\ sounds[s].storage_path[2] = s

\* C9 (as claimed): the upload precedes the row as above, and a create
\* request leaves nothing half-done except a blob without a row: a row left
\* by a finished create request has all the tag associations of that request.
C9_OnlyOrphanBlobIsPartial ==
    /\ C9_UploadPrecedesRow
    /\ \A r \in Req :
          (/\ rq[r].op = "create_sound" /\ rq[r].pc = "done"
           /\ rq[r].new_id \in DOMAIN sounds)
             => \A slug \in TagSlugs(rq[r].tag_list) : <<rq[r].new_id, slug>> \in sound_tags

\* C10: when delete_path is attempted the sounds row is already gone; a
\* successful delete_sound leaves neither row nor blob; a failed delete_path
\* leaves the blob and ends the request; a row enters the table only by the
\* INSERT of the create request that drew its id; and a blob leaves the bucket
\* only by the one delete_path call of a delete request.
C10_RowDeletedBeforeBlob ==
    [][/\ \A r \in Req :
            LET q == rq[r]
                q2 == rq'[r]
            IN /\ q.pc = "ds_delpath" => q.args.snd \notin DOMAIN sounds
               /\ (q.pc = "ds_delpath" /\ q2 # q) =>
                     /\ q2.pc = "done"
                     /\ q.args.snd \notin DOMAIN sounds'
                     /\ q2.status = 200 => q.storage_path \notin blobs'
                     /\ q2.status # 200 => blobs' = blobs
       /\ \A s \in DOMAIN sounds' \ DOMAIN sounds :
            \E r \in Req : /\ rq[r].pc = "cs_insert" /\ rq[r].new_id = s
                           /\ \A x \in Req : rq[x].op = "delete_sound" => rq[x].args.snd # s \/ ~rq[x].found
       /\ \A b \in blobs \ blobs' :
            \E r \in Req : /\ rq[r].pc = "ds_delpath" /\ rq[r].storage_path = b
                           /\ rq'[r].pc = "done" /\ rq'[r].status = 200]_vars

\* C10 witness: a delete request ended on a failed delete_path; its row is
\* gone and the blob is still in the bucket.
C10_Witness ==
    \E r \in Req :
       /\ rq[r].op = "delete_sound" /\ rq[r].pc = "done"
       /\ rq[r].upstream = "delete_path"
       /\ rq[r].args.snd \notin DOMAIN sounds
       /\ rq[r].storage_path \in blobs

\* The 1-based place of a sound id in a list that holds it once.
IndexIn(ids, s) == CHOOSE i \in 1..Len(ids) : ids[i] = s

\* The memberships a reorder of playlist pl by ids has to leave, given the
\* memberships before it.
Reordered(before, pl, ids) ==
    [k \in DOMAIN before |->
        IF k[1] = pl /\ before[k] # 0 /\ (\E i \in 1..Len(ids) : ids[i] = k[2])
        THEN IndexIn(ids, k[2]) ELSE before[k]]

\* The memberships {A:1, B:2, C:3} of playlist 1 (A, B, C are sounds 1, 2, 3).
IsABC(table) == table[<<1, 1>>] = 1 /\ table[<<1, 2>>] = 2 /\ table[<<1, 3>>] = 3

\* C11 (as claimed): a reorder of a playlist with positions {A:1, B:2, C:3}
\* by the list [C, A] that is answered ok leaves C:1, A:2 and B:3.
C11_ReorderCA ==
    \A r \in Req :
       (/\ rq[r].op = "reorder_playlist_sounds"
        /\ rq[r].pc = "done" /\ rq[r].status = 200
        /\ rq[r].args.pl = 1 /\ rq[r].args.ids = <<3, 1>>
        /\ IsABC(rq[r].args.before))
          => /\ playlist_sounds[<<1, 3>>] = 1
             /\ playlist_sounds[<<1, 1>>] = 2
             /\ playlist_sounds[<<1, 2>>] = 3

\* C11 (amended): such a reorder leaves C:1 and A:2, and B, whose row it does
\* not touch, at its old position 2, the position A now has as well.
C11_ReorderCAKeepsB ==
    \A r \in Req :
       (/\ rq[r].op = "reorder_playlist_sounds"
        /\ rq[r].pc = "done" /\ rq[r].status = 200
        /\ rq[r].args.pl = 1 /\ rq[r].args.ids = <<3, 1>>
        /\ IsABC(rq[r].args.before))
          => /\ playlist_sounds[<<1, 3>>] = 1
             /\ playlist_sounds[<<1, 1>>] = 2
             /\ playlist_sounds[<<1, 2>>] = rq[r].args.before[<<1, 2>>]

\* C11 witness: such a reorder of {A:1, B:2, C:3} by [C, A] has been answered ok.
C11_Witness ==
    \E r \in Req :
       /\ rq[r].op = "reorder_playlist_sounds"
       /\ rq[r].pc = "done" /\ rq[r].status = 200
       /\ rq[r].args.pl = 1 /\ rq[r].args.ids = <<3, 1>>
       /\ IsABC(rq[r].args.before)
       /\ playlist_sounds[<<1, 3>>] = 1

\* C12: a statement of reorder changes at most the row of the listed sound it
\* is about, only when that row exists, and sets its position to the 1-based
\* index; no membership appears or disappears and no other table changes;
\* and a reorder answered ok leaves every listed member at its index, every
\* other member and every other playlist as before.
C12_ReorderFrame ==
    [][\A r \in Req :
         LET q == rq[r]
             q2 == rq'[r]
         IN /\ (q.pc = "ro_update" /\ q2 # q) =>
                  /\ UNCHANGED <<profiles, playlists, sounds, tags, sound_tags>>
                  /\ \A k \in DOMAIN playlist_sounds :
                        /\ (playlist_sounds'[k] = 0) <=> (playlist_sounds[k] = 0)
                        /\ playlist_sounds'[k] # playlist_sounds[k] =>
                              /\ k = <<q.args.pl, q.args.ids[q.index + 1]>>
                              /\ playlist_sounds'[k] = q.index + 1
            /\ (/\ q.op = "reorder_playlist_sounds" /\ q.phase = "main"
                /\ q.pc = "rel" /\ q.err = 0 /\ q2.pc = "done") =>
                  playlist_sounds' = Reordered(q.args.before, q.args.pl, q.args.ids)]_vars

\* C12 witness: a reorder that listed a non-member and left a member out has
\* been answered ok, and it moved a member.
C12_Witness ==
    \E r \in Req :
       /\ rq[r].op = "reorder_playlist_sounds"
       /\ rq[r].pc = "done" /\ rq[r].status = 200
       /\ \E i \in 1..Len(rq[r].args.ids) :
             rq[r].args.before[<<rq[r].args.pl, rq[r].args.ids[i]>>] = 0
       /\ \E k \in DOMAIN playlist_sounds :
             /\ k[1] = rq[r].args.pl /\ playlist_sounds[k] # 0
             /\ \A i \in 1..Len(rq[r].args.ids) : rq[r].args.ids[i] # k[2]
       /\ playlist_sounds # rq[r].args.before

\* C13: no step removes a profile or changes an existing handle, a non-empty
\* display_name or a non-empty avatar_url; ensure_profile touches only the row
\* of the identity it runs for, and adds at most that one row, also when
\* logins of the same identity interleave.
C13_ProfileFillOnly ==
    [][/\ \A u \in DOMAIN profiles :
            /\ u \in DOMAIN profiles'
            /\ profiles'[u].handle = profiles[u].handle
            /\ profiles[u].display_name # <<>> =>
                  profiles'[u].display_name = profiles[u].display_name
            /\ profiles[u].avatar_url # <<>> =>
                  profiles'[u].avatar_url = profiles[u].avatar_url
       /\ \A r \in Req :
            (rq[r].pc = "ep_upsert" /\ rq'[r] # rq[r]) =>
               /\ DOMAIN profiles' \subseteq DOMAIN profiles \cup {rq[r].user.id}
               /\ \A u \in DOMAIN profiles \ {rq[r].user.id} : profiles'[u] = profiles[u]]_vars

\* C13 witness: an identity has authenticated again with other claim data; its
\* stored display_name is not the one of these claims, and its avatar_url,
\* empty before, is filled.
C13_Witness ==
    \E r \in Req :
       /\ rq[r].pc = "done" /\ rq[r].status = 200
       /\ rq[r].user.id \in DOMAIN profiles
       /\ LET stored == profiles[rq[r].user.id]
              mine == profile_of(rq[r].user.id, ClaimData[rq[r].cred.meta])
          IN /\ stored.display_name # <<>>
             /\ stored.display_name # mine.display_name
             /\ mine.avatar_url # <<>>
             /\ stored.avatar_url = mine.avatar_url

\* C14 (as claimed): the handle ensure_profile derives for an identity without
\* a profile is non-empty and is not the handle of another identity's profile,
\* so the INSERT of a first login never hits the unique handle of another row.
C14_HandlesNeverCollide ==
    \A r \in Req :
       (rq[r].pc = "ep_upsert" /\ rq[r].user.id \notin DOMAIN profiles) =>
          LET handle == profile_of(rq[r].user.id, ClaimData[rq[r].cred.meta]).handle
          IN /\ handle[1] # <<>> /\ handle[2] # ""
             /\ \A u \in DOMAIN profiles : profiles[u].handle # handle

\* The privacy values a client can send; None stands for a missing value.
Canonical == {"public", "private", "link_only"}
PrivacyInputs == Canonical \cup {"link-only", "PUBLIC", "", "friends", None}

\* C15: normalize_privacy returns "public", "private" and "link_only"
\* unchanged and "link_only" for "link-only", for a missing value and for every
\* other string; and every privacy stored in a playlists or sounds row is one
\* of the three canonical values.
C15_PrivacyCanonical ==
    /\ \A v \in PrivacyInputs :
          normalize_privacy(v) = IF v \in Canonical THEN v ELSE "link_only"
    /\ \A p \in DOMAIN playlists : playlists[p].privacy \in Canonical
    /\ \A s \in DOMAIN sounds : sounds[s].privacy \in Canonical

\* C15 witness: an update with an unrecognised privacy and a create with
\* "link-only" have been answered ok, and both rows hold link_only.
C15_Witness ==
    \E r1, r2 \in Req :
       /\ rq[r1].op = "update_playlist" /\ rq[r1].pc = "done" /\ rq[r1].status = 200
       /\ rq[r1].args.privacy = "PUBLIC"
       /\ playlists[rq[r1].args.pl].privacy = "link_only"
       /\ rq[r2].op = "create_sound" /\ rq[r2].pc = "done" /\ rq[r2].status = 200
       /\ rq[r2].args.privacy = "link-only"
       /\ rq[r2].new_id \in DOMAIN sounds
       /\ sounds[rq[r2].new_id].privacy = "link_only"

\* The positions of the memberships of a playlist (0 where there is none).
PositionsOf(table, pl) == {table[k] : k \in {x \in DOMAIN table : x[1] = pl}}

\* C16: an add that inserts a membership gives it the position one more than
\* the largest position the playlist's memberships have when the INSERT runs
\* (1 for an empty playlist), also when adds to the same playlist interleave;
\* an add of a sound that is already a member changes no membership.
C16_AddPositionIsMaxPlusOne ==
    [][\A r \in Req :
         LET q == rq[r]
             k == <<q.args.pl, q.args.snd>>
         IN (q.pc = "as_insert" /\ rq'[r] # q) =>
               IF playlist_sounds[k] # 0
               THEN playlist_sounds' = playlist_sounds
               ELSE playlist_sounds' # playlist_sounds =>
                      playlist_sounds'[k] = MaxOf(PositionsOf(playlist_sounds, q.args.pl)) + 1]_vars

\* The tasks of a burst of requests: one more than the pool has connections.
Crowd == 1..(PoolMax + 1)

\* One connection each: a task that asks for a connection holds none, the
\* connections held are distinct and none of them is idle, and idle and held
\* connections together are the pool's five.
C17_OneConnectionEach ==
    /\ \A r \in DOMAIN rq : rq[r].pc = "acq" => ~rq[r].holds
    /\ \A r1, r2 \in DOMAIN rq :
          (rq[r1].holds /\ rq[r2].holds /\ r1 # r2) => rq[r1].conn # rq[r2].conn
    /\ \A r \in DOMAIN rq : rq[r].holds => \A i \in 1..Len(idle) : idle[i] # rq[r].conn
    /\ \A i, j \in 1..Len(idle) : i # j => idle[i] # idle[j]
    /\ Len(idle) + Cardinality({r \in DOMAIN rq : rq[r].holds}) = PoolMax

\* Every request that has arrived has been answered.
AllAnswered == \A r \in Crowd : rq[r].pc \in {"idle", "done"}

\* C17: no task holds more than one pooled connection: a task that asks for
\* a connection holds none, the connections held are distinct and none of them
\* is idle, and idle and held connections together are the pool's five; and
\* with more tasks than connections, under fair scheduling, again and again
\* every request that has arrived has been answered, so that no task waits
\* for a connection for ever and none holds one for ever.
C17_NoPoolDeadlock == []C17_OneConnectionEach /\ []<>AllAnswered

\* C17 witness: every connection is taken, a task is waiting for one, and
\* the request with two scoped blocks has been through its first.
C17_Witness ==
    /\ idle = <<>>
    /\ \E r \in DOMAIN rq : rq[r].pc = "acq" /\ ~rq[r].holds
    /\ \E r \in DOMAIN rq : rq[r].phase = "fp" /\ rq[r].found

\* -------------------------------------------------------- specifications
Scopes == \E r \in Req : acquire(r) \/ release(r)
Identity == \E r \in Req : authenticate(r) \/ ensure_profile(r) \/ enter_handler(r)
Profiles == \E r \in Req : fetch_profiles(r)
Ends == \E r \in Req : finish(r)

\* A database that already holds a link-only playlist of the first user.
InitOnePlaylist ==
    /\ rq = [r \in Req |-> IdleReq]
    /\ idle = [i \in 1..PoolMax |-> i]
    /\ conns = [c \in Conns |-> FreshConn]
    /\ profiles = <<>>
    /\ playlists = (1 :> [owner_id |-> "aaaaaa-1", privacy |-> "link_only",
                          share_token_hash |-> token_hash(1)])
    /\ sounds = <<>>
    /\ playlist_sounds = [k \in PlaylistIds \X SoundIds |-> 0]
    /\ tags = <<>>
    /\ sound_tags = {}
    /\ blobs = {}
    /\ uploaded = {}
    /\ issued = [p \in PlaylistIds |-> IF p = 1 THEN <<1>> ELSE <<>>]
    /\ nextTok = 2
    /\ nextPl = 2
    /\ nextSnd = 1

\* Requests of two users and of anonymous callers on the scoped handles.
BeginScoped ==
    \E r \in Req :
       \/ \E u \in Users, p \in PlaylistIds :
            Begin(r, "rotate_share_token", ValidCred(u, 1), [NoArgs EXCEPT !.pl = p])
       \/ \E t \in {1, 2} :
            Begin(r, "get_playlist_share", NoCred, [NoArgs EXCEPT !.tok = t])
       \/ Begin(r, "get_playlist", NoCred, [NoArgs EXCEPT !.pl = 1])

Next ==
    \/ BeginScoped \/ Scopes \/ Identity \/ Profiles \/ Ends
    \/ \E r \in Req :
          \/ rotate_share_token(r)
          \/ get_playlist_share(r) \/ get_playlist_share_sounds(r)
          \/ get_playlist(r) \/ get_playlist_sounds(r)

Spec == InitOnePlaylist /\ [][Next]_vars

\* The share flow on an empty database: create, update privacy, rotate and
\* look up by token.
Owner == "aaaaaa-1"

\* The owner's client sends one request at a time; every other task is a
\* visitor following a share link.
BeginShare ==
    \/ Begin(1, "create_playlist", ValidCred(Owner, 1), [NoArgs EXCEPT !.privacy = "link_only"])
    \/ \E p \in PlaylistIds :
         Begin(1, "rotate_share_token", ValidCred(Owner, 1), [NoArgs EXCEPT !.pl = p])
    \/ \E p \in PlaylistIds, pv \in {"private", "link-only"} :
         Begin(1, "update_playlist", ValidCred(Owner, 1),
               [NoArgs EXCEPT !.pl = p, !.privacy = pv])
    \/ \E r \in Req \ {1}, t \in TokenIds :
         Begin(r, "get_playlist_share", NoCred, [NoArgs EXCEPT !.tok = t])

NextShare ==
    \/ BeginShare \/ Scopes \/ Identity \/ Profiles \/ Ends
    \/ \E r \in Req :
          \/ create_playlist(r) \/ rotate_share_token(r) \/ update_playlist(r)
          \/ get_playlist_share(r) \/ get_playlist_share_sounds(r)

SpecShare == Init /\ [][NextShare]_vars

\* A database after the first user has signed in, uploaded sound 1 and put
\* it into a link-only playlist 1.
FirstPath == <<"aaaaaa-1", 1, safe_name(<<"a", " ", "b">>)>>

InitWithContent ==
    /\ rq = [r \in Req |-> IdleReq]
    /\ idle = [i \in 1..PoolMax |-> i]
    /\ conns = [c \in Conns |-> FreshConn]
    /\ profiles = ("aaaaaa-1" :> profile_of("aaaaaa-1", ClaimData[1]))
    /\ playlists = (1 :> [owner_id |-> "aaaaaa-1", privacy |-> "link_only",
                          share_token_hash |-> token_hash(1)])
    /\ sounds = (1 :> [owner_id |-> "aaaaaa-1", storage_path |-> FirstPath,
                       privacy |-> "link_only"])
    /\ playlist_sounds = [k \in PlaylistIds \X SoundIds |-> IF k = <<1, 1>> THEN 1 ELSE 0]
    /\ tags = <<>>
    /\ sound_tags = {}
    /\ blobs = {FirstPath}
    /\ uploaded = {FirstPath}
    /\ issued = [p \in PlaylistIds |-> IF p = 1 THEN <<1>> ELSE <<>>]
    /\ nextTok = 2
    /\ nextPl = 2
    /\ nextSnd = 2

\* The Authorization headers a client can send.
NoSubCred == [kind |-> "valid", sub |-> None, role |-> None, meta |-> 1]
Credentials == {NoCred, BadCred("expired"), BadCred("invalid"), NoSubCred,
                ValidCred("bbbbbb-1", 2)}

\* The read routes, with every kind of credential.
BeginRead ==
    \E r \in Req, cred \in Credentials :
       \/ Begin(r, "list_playlists", cred, NoArgs)
       \/ \E p \in PlaylistIds : Begin(r, "get_playlist", cred, [NoArgs EXCEPT !.pl = p])
       \/ Begin(r, "list_sounds", cred, NoArgs)
       \/ \E u \in Users : Begin(r, "get_creator", cred, [NoArgs EXCEPT !.creator = u])

Reads ==
    \E r \in Req :
       \/ list_playlists(r) \/ list_sounds(r)
       \/ get_playlist(r) \/ get_playlist_sounds(r)
       \/ get_creator(r) \/ get_creator_sounds(r) \/ get_creator_playlists(r)
       \/ sign_url(r)

NextAuth == BeginRead \/ Scopes \/ Identity \/ Profiles \/ Ends \/ Reads

SpecAuth == InitWithContent /\ [][NextAuth]_vars

\* Membership and sound maintenance by the owner, on ids that have a row and
\* on ids that have none.
TagInputs == { <<>>, << <<"A">>, <<"-">> >> }

BeginMembers ==
    \/ \E p \in PlaylistIds, s \in SoundIds :
         Begin(1, "add_sound_to_playlist", ValidCred(Owner, 1),
               [NoArgs EXCEPT !.pl = p, !.snd = s])
    \/ \E p \in PlaylistIds :
         \/ Begin(1, "remove_sound_from_playlist", ValidCred(Owner, 1),
                  [NoArgs EXCEPT !.pl = p, !.snd = 1])
         \/ Begin(1, "reorder_playlist_sounds", ValidCred(Owner, 1),
                  [NoArgs EXCEPT !.pl = p, !.ids = <<2, 1>>])
    \/ \E r \in Req \ {1} :
         \/ Begin(r, "delete_sound", ValidCred(Owner, 1), [NoArgs EXCEPT !.snd = 1])
         \/ \E s \in SoundIds :
              Begin(r, "update_sound", ValidCred(Owner, 1),
                    [NoArgs EXCEPT !.snd = s, !.privacy = "public", !.has_tags = TRUE,
                                   !.taglist = << <<"A">>, <<"-">> >>])

Members ==
    \E r \in Req :
       \/ add_sound_to_playlist(r) \/ add_sound_select_sound(r)
       \/ add_sound_position(r) \/ add_sound_insert(r)
       \/ remove_sound_from_playlist(r) \/ reorder_playlist_sounds(r)

Tags == \E r \in Req : ensure_tags(r) \/ attach_tags(r)

Deletes == \E r \in Req : delete_sound(r) \/ delete_sound_row(r) \/ delete_path(r)

NextMembers ==
    \/ BeginMembers \/ Scopes \/ Identity \/ Ends \/ Members \/ Tags \/ Deletes
    \/ \E r \in Req : update_sound(r) \/ update_sound_row(r) \/ update_sound_tags(r)

SpecMembers == InitWithContent /\ [][NextMembers]_vars

\* The life of a sound on an empty database: the owner uploads and deletes,
\* the other tasks list the sounds or delete as well.
BeginSounds ==
    \/ Begin(1, "create_sound", ValidCred(Owner, 1), NoArgs)
    \/ \E tl \in TagInputs :
         Begin(1, "create_sound", ValidCred(Owner, 1),
               [NoArgs EXCEPT !.name = <<"a">>, !.filename = <<"a", " ", "b">>,
                              !.privacy = "public", !.taglist = tl])
    \/ \E r \in Req \ {1} :
         \/ \E s \in SoundIds :
              Begin(r, "delete_sound", ValidCred(Owner, 1), [NoArgs EXCEPT !.snd = s])
         \/ Begin(r, "list_sounds", NoCred, NoArgs)

NextSounds ==
    \/ BeginSounds \/ Scopes \/ Identity \/ Profiles \/ Ends \/ Tags \/ Deletes
    \/ \E r \in Req : upload_bytes(r) \/ create_sound(r) \/ list_sounds(r) \/ sign_url(r)

SpecSounds == Init /\ [][NextSounds]_vars

\* Two playlists of the first user after three uploads: playlist 1 holds the
\* sounds 1, 2, 3 at the positions 1, 2, 3 and playlist 2 the sounds 1, 2.
ThreeSounds == {1, 2, 3}

PathOf(s) == <<"aaaaaa-1", s, safe_name(<<"a">>)>>

InitThreeMembers ==
    /\ rq = [r \in Req |-> IdleReq]
    /\ idle = [i \in 1..PoolMax |-> i]
    /\ conns = [c \in Conns |-> FreshConn]
    /\ profiles = ("aaaaaa-1" :> profile_of("aaaaaa-1", ClaimData[1]))
    /\ playlists = [p \in {1, 2} |-> [owner_id |-> "aaaaaa-1", privacy |-> "link_only",
                                     share_token_hash |-> token_hash(p)]]
    /\ sounds = [s \in ThreeSounds |-> [owner_id |-> "aaaaaa-1", storage_path |-> PathOf(s),
                                        privacy |-> "link_only"]]
    /\ playlist_sounds = [k \in {1, 2} \X ThreeSounds |->
                             IF k[1] = 1 \/ k[2] # 3 THEN k[2] ELSE 0]
    /\ tags = <<>>
    /\ sound_tags = {}
    /\ blobs = {PathOf(s) : s \in ThreeSounds}
    /\ uploaded = {PathOf(s) : s \in ThreeSounds}
    /\ issued = [p \in PlaylistIds |-> IF p \in {1, 2} THEN <<p>> ELSE <<>>]
    /\ nextTok = 3
    /\ nextPl = 3
    /\ nextSnd = 4

\* The lists of distinct sound ids a reorder request can carry.
IdLists ==
    {<<>>} \cup {<<a>> : a \in ThreeSounds}
           \cup {<<a, b>> : <<a, b>> \in {x \in ThreeSounds \X ThreeSounds : x[1] # x[2]}}

\* The owner reorders, one request at a time (before: the memberships when
\* the request is sent, kept for the claims); another user lists playlists.
BeginReorder ==
    \/ \E p \in {1, 2}, ids \in IdLists :
         Begin(1, "reorder_playlist_sounds", ValidCred(Owner, 1),
               [NoArgs EXCEPT !.pl = p, !.ids = ids, !.before = playlist_sounds])
    \/ \E r \in Req \ {1} : Begin(r, "list_playlists", ValidCred("bbbbbb-1", 2), NoArgs)

NextReorder ==
    \/ BeginReorder \/ Scopes \/ Identity \/ Ends
    \/ \E r \in Req : reorder_playlist_sounds(r) \/ list_playlists(r)

SpecReorder == InitThreeMembers /\ [][NextReorder]_vars

\* Sign-ins on an empty database: two identities whose ids start with the
\* same six characters, each with any of the claim sets, in any interleaving.
Subjects == {"aaaaaa-1", "aaaaaa-2"}

BeginSignIn ==
    \E r \in Req, u \in Subjects, k \in 1..Len(ClaimData) :
       Begin(r, "list_playlists", ValidCred(u, k), NoArgs)

NextProfiles ==
    \/ BeginSignIn \/ Scopes \/ Identity \/ Ends
    \/ \E r \in Req : list_playlists(r)

SpecProfiles == Init /\ [][NextProfiles]_vars

\* Creates and updates with recognised, unrecognised and missing privacy
\* values: the owner works on playlists in one task and on sounds in another.
BeginPrivacy ==
    \/ \E pv \in {"public", "link-only"} :
         Begin(1, "create_playlist", ValidCred(Owner, 1), [NoArgs EXCEPT !.privacy = pv])
    \/ \E pv \in {"PUBLIC", None} :
         Begin(1, "update_playlist", ValidCred(Owner, 1),
               [NoArgs EXCEPT !.pl = 1, !.privacy = pv])
    \/ \E r \in Req \ {1} :
         \/ Begin(r, "create_sound", ValidCred(Owner, 1),
                  [NoArgs EXCEPT !.name = <<"a">>, !.filename = <<"a">>,
                                 !.privacy = "link-only"])
         \/ \E pv \in {"private", "friends"} :
              Begin(r, "update_sound", ValidCred(Owner, 1),
                    [NoArgs EXCEPT !.snd = 1, !.privacy = pv])

NextPrivacy ==
    \/ BeginPrivacy \/ Scopes \/ Identity \/ Profiles \/ Ends
    \/ \E r \in Req :
          \/ create_playlist(r) \/ update_playlist(r)
          \/ upload_bytes(r) \/ create_sound(r) \/ sign_url(r)
          \/ update_sound(r) \/ update_sound_row(r)

SpecPrivacy == InitWithContent /\ [][NextPrivacy]_vars

\* Two playlists and three sounds of the first user; playlist 1 holds sound 1
\* at position 1 and playlist 2 is empty.
InitOneMember ==
    /\ rq = [r \in Req |-> IdleReq]
    /\ idle = [i \in 1..PoolMax |-> i]
    /\ conns = [c \in Conns |-> FreshConn]
    /\ profiles = ("aaaaaa-1" :> profile_of("aaaaaa-1", ClaimData[1]))
    /\ playlists = [p \in {1, 2} |-> [owner_id |-> "aaaaaa-1", privacy |-> "link_only",
                                     share_token_hash |-> token_hash(p)]]
    /\ sounds = [s \in ThreeSounds |-> [owner_id |-> "aaaaaa-1", storage_path |-> PathOf(s),
                                        privacy |-> "link_only"]]
    /\ playlist_sounds = [k \in {1, 2} \X ThreeSounds |-> IF k = <<1, 1>> THEN 1 ELSE 0]
    /\ tags = <<>>
    /\ sound_tags = {}
    /\ blobs = {PathOf(s) : s \in ThreeSounds}
    /\ uploaded = {PathOf(s) : s \in ThreeSounds}
    /\ issued = [p \in PlaylistIds |-> IF p \in {1, 2} THEN <<p>> ELSE <<>>]
    /\ nextTok = 3
    /\ nextPl = 3
    /\ nextSnd = 4

\* The owner adds sounds to the playlists from every task at once: one task
\* adds the sounds 1 and 2, the others sound 3.
BeginAdds ==
    \/ \E p \in {1, 2}, s \in {1, 2} :
         Begin(1, "add_sound_to_playlist", ValidCred(Owner, 1),
               [NoArgs EXCEPT !.pl = p, !.snd = s])
    \/ \E r \in Req \ {1}, p \in {1, 2} :
         Begin(r, "add_sound_to_playlist", ValidCred(Owner, 1),
               [NoArgs EXCEPT !.pl = p, !.snd = 3])

NextAdds ==
    \/ BeginAdds \/ Scopes \/ Identity \/ Ends
    \/ \E r \in Req :
          \/ add_sound_to_playlist(r) \/ add_sound_select_sound(r)
          \/ add_sound_position(r) \/ add_sound_insert(r)

SpecAdds == InitOneMember /\ [][NextAdds]_vars

\* A burst of visitors opening share links.  Four requests with a token
\* nobody was given hold the connections 2 to 5 and have just learnt that no
\* playlist matches; a fifth such request and a request with the token of
\* playlist 1 have reached the pool.acquire() of the handler's block, with
\* one connection idle.
AtAcquire(tok) ==
    [IdleReq EXCEPT !.op = "get_playlist_share", !.phase = "main", !.pc = "acq",
                    !.args = [NoArgs EXCEPT !.tok = tok], !.entered = TRUE]

NotFoundOn(c) ==
    Raise(Evaluated([AtAcquire(2) EXCEPT !.conn = c, !.holds = TRUE]), 404)

InitCrowd ==
    /\ idle = <<1>>
    /\ conns = [c \in Conns |->
                  IF c = 1 THEN FreshConn
                  ELSE ExecuteAll(FreshConn, get_service_db_statements)]
    /\ rq = [r \in Crowd |->
               IF r <= 2 THEN AtAcquire(r) ELSE NotFoundOn(r - 1)]
    /\ profiles = ("aaaaaa-1" :> profile_of("aaaaaa-1", ClaimData[1]))
    /\ playlists = (1 :> [owner_id |-> "aaaaaa-1", privacy |-> "link_only",
                          share_token_hash |-> token_hash(1)])
    /\ sounds = (1 :> [owner_id |-> "aaaaaa-1", storage_path |-> FirstPath,
                       privacy |-> "link_only"])
    /\ playlist_sounds = [k \in PlaylistIds \X SoundIds |-> IF k = <<1, 1>> THEN 1 ELSE 0]
    /\ tags = <<>>
    /\ sound_tags = {}
    /\ blobs = {FirstPath}
    /\ uploaded = {FirstPath}
    /\ issued = [p \in PlaylistIds |-> IF p = 1 THEN <<1>> ELSE <<>>]
    /\ nextTok = 2
    /\ nextPl = 2
    /\ nextSnd = 2

\* The visitor with the link of playlist 1 opens it again.
BeginCrowd ==
    Begin(1, "get_playlist_share", NoCred, [NoArgs EXCEPT !.tok = 1])

\* What the event loop runs of task r once its request has arrived.
StepOf(r) ==
    \/ authenticate(r) \/ enter_handler(r) \/ acquire(r) \/ release(r)
    \/ get_playlist_share(r) \/ get_playlist_share_sounds(r)
    \/ fetch_profiles(r) \/ sign_url(r)

\* The other visitors come once: their tasks are not taken up again.
NextCrowd == BeginCrowd \/ (\E r \in Crowd : StepOf(r)) \/ finish(1)

SpecCrowd == InitCrowd /\ [][NextCrowd]_vars

\* The event loop runs every task that can run; a task waiting in
\* pool.acquire() can run when a connection is idle.
FairCrowd == \A r \in Crowd : WF_vars(StepOf(r))

SpecCrowdFair == SpecCrowd /\ FairCrowd

====
